---- MODULE Spec2Model ----
(***************************************************************************)
(* Model of the aiosterisk protocol engine: AMIProtocol (protocol.py) and  *)
(* AMIConnection (connection.py).  Text is modelled character by           *)
(* character (a text is a sequence of one-character strings), so that      *)
(* str.splitlines, the field regular expression and str.format are         *)
(* computed the way the code computes them.                                *)
(***************************************************************************)
EXTENDS Integers, Sequences, FiniteSets, TLC

VARIABLES
    action_futures,  \* AMIProtocol._action_futures: identifier -> future
    event_handlers,  \* AMIProtocol._event_handlers: event name -> callbacks
    task,            \* the decode task held in AMIProtocol._tasks
    message,         \* the local variable message of _dispatch_message
    message_queue,   \* AMIProtocol._message_queue
    count,           \* AMIProtocol._count
    hostname,        \* AMIProtocol._hostname
    transport,       \* AMIProtocol.transport and the state of its socket
    wire,            \* the bytes handed to transport.write so far
    ready,           \* the event loop's call_soon queue
    closed,          \* AMIConnection.closed
    raised,          \* the exception raised by the latest API call
    assembled,       \* the messages the decode task has completed, in order
    stream,          \* the text the server sends (chunking specification)
    pos,             \* how much of stream has been delivered
    ops,             \* the number of calls the environment has made
    lost_with,       \* the requests outstanding when the transport was lost
    connection,      \* AMIConnection: its configuration and its coroutine
    logged           \* the loop has logged an exception raised by a callback

vars == << action_futures, event_handlers, task, message, message_queue,
           count, hostname, transport, wire, ready, closed, raised,
           assembled, stream, pos, ops, lost_with, connection, logged >>

----------------------------------------------------------------------------
(* Bounds of the model.                                                    *)

\* the calls made from outside: sendMessage, on, data_received
MaxOps == 3

----------------------------------------------------------------------------
(* Text.                                                                   *)

CR == "\r"
LF == "\n"
SP == " "
COLON == ":"

\* the characters \s matches and \S does not
Whitespace == {SP, "\t", CR, LF}

ActionID == <<"A", "c", "t", "i", "o", "n", "I", "D">>
actionidLower == <<"a", "c", "t", "i", "o", "n", "i", "d">>
Event == <<"E", "v", "e", "n", "t">>
Response == <<"R", "e", "s", "p", "o", "n", "s", "e">>
Error == <<"E", "r", "r", "o", "r">>
Message == <<"M", "e", "s", "s", "a", "g", "e">>
Underscore == <<"_">>
NoneText == <<"N", "o", "n", "e">>

\* Python values a message dict or a future can hold
NoneV == [k |-> "none", v |-> <<>>]
Str(t) == [k |-> "str", v |-> t]
List(l) == [k |-> "list", v |-> l]
Msg(m) == [k |-> "msg", v |-> m]

EmptyDict == [key \in {} |-> NoneV]

\* dict.get(key), default None
Get(d, key) == IF key \in DOMAIN d THEN d[key] ELSE NoneV

\* d[key] = val
Put(d, key, val) ==
    [x \in DOMAIN d \cup {key} |-> IF x = key THEN val ELSE d[x]]

UpperCase == <<"A", "D", "E", "I", "K", "L", "M", "P", "R", "S", "T", "U">>
LowerCase == <<"a", "d", "e", "i", "k", "l", "m", "p", "r", "s", "t", "u">>

\* str.lower() on one character
LowerChar(c) ==
    IF \E i \in DOMAIN UpperCase : UpperCase[i] = c
    THEN LowerCase[CHOOSE i \in DOMAIN UpperCase : UpperCase[i] = c]
    ELSE c

\* str.lower()
Lower(t) == [i \in DOMAIN t |-> LowerChar(t[i])]

Digits == <<"0", "1", "2", "3", "4", "5", "6", "7", "8", "9">>

RECURSIVE FormatInt(_)
\* '{:d}'.format(n) for n >= 0
FormatInt(n) ==
    IF n < 10 THEN <<Digits[n + 1]>>
    ELSE Append(FormatInt(n \div 10), Digits[(n % 10) + 1])

RECURSIVE SplitAt(_, _, _)
SplitAt(s, cur, acc) ==
    IF s = <<>> THEN (IF cur = <<>> THEN acc ELSE Append(acc, cur))
    ELSE IF Head(s) = LF THEN SplitAt(Tail(s), <<>>, Append(acc, cur))
    ELSE IF Head(s) = CR THEN
        IF Len(s) >= 2 /\ s[2] = LF
        THEN SplitAt(SubSeq(s, 3, Len(s)), <<>>, Append(acc, cur))
        ELSE SplitAt(Tail(s), <<>>, Append(acc, cur))
    ELSE SplitAt(Tail(s), Append(cur, Head(s)), acc)

\* str.splitlines(): lines end at \n, \r or \r\n; the terminators are dropped
SplitLines(s) == SplitAt(s, <<>>, <<>>)

\* the positions i at which '^(\S+):' can end: tag[i] is a colon and
\* everything before it is one or more non-whitespace characters
ColonAt(tag) ==
    {i \in 2..Len(tag) :
        /\ tag[i] = COLON
        /\ \A j \in 1..(i - 1) : tag[j] \notin Whitespace}

RECURSIVE SkipWhitespace(_)
SkipWhitespace(t) ==
    IF t # <<>> /\ Head(t) \in Whitespace THEN SkipWhitespace(Tail(t)) ELSE t

\* re.match('^(\S+):\s*(.+)?$', tag)
Matches(tag) == ColonAt(tag) # {}

\* matches.groups(): \S+ is greedy, so the token ends at the last colon
\* possible; the value is None when nothing follows the whitespace
Groups(tag) ==
    LET i == CHOOSE x \in ColonAt(tag) : \A y \in ColonAt(tag) : y <= x
        rest == SkipWhitespace(SubSeq(tag, i + 1, Len(tag)))
    IN  << SubSeq(tag, 1, i - 1), IF rest = <<>> THEN NoneV ELSE Str(rest) >>

----------------------------------------------------------------------------
(* Futures (asyncio.Future).                                               *)

PendingFuture == [state |-> "pending", value |-> NoneV]

Done(f) == f.state # "pending"

\* Future.cancel(): a done future is left as it is
Cancel(f) == IF Done(f) THEN f ELSE [state |-> "cancelled", value |-> NoneV]

----------------------------------------------------------------------------
(* _dispatch_message: the decode task.                                     *)

\* a correlator that ignores the identifier and takes a pending request
FutureKeyAnyPending(futures, m) ==
    IF \E id \in DOMAIN futures : ~Done(futures[id])
    THEN Str(CHOOSE id \in DOMAIN futures : ~Done(futures[id]))
    ELSE NoneV

\* self._action_futures.get(message['ActionID']): the key under which the
\* future is found, or NoneV
FutureKey(futures, m) ==
    LET id == m[ActionID]
    IN  IF id.k = "str" /\ id.v \in DOMAIN futures THEN Str(id.v) ELSE NoneV

\* a failure that carries the whole message instead of its Message field
ResolveWholeMessage(m) ==
    IF Get(m, Response) = Str(Error)
    THEN [state |-> "exception", value |-> Msg(m)]
    ELSE [state |-> "result", value |-> Msg(m)]

\* lines 65-68: what the found future becomes
Resolve(m) ==
    IF Get(m, Response) = Str(Error)
    THEN [state |-> "exception", value |-> Get(m, Message)]
    ELSE [state |-> "result", value |-> Msg(m)]

\* a correlator path in which a failure ends the decode task
RouteResponseAbort(d, m) ==
    IF ActionID \notin DOMAIN m THEN d
    ELSE LET key == FutureKey(d.futures, m)
         IN  IF key = NoneV THEN d
             ELSE IF Done(d.futures[key.v]) \/ Resolve(m).state = "exception"
                  THEN [d EXCEPT !.crashed = TRUE]
                  ELSE [d EXCEPT !.futures[key.v] = Resolve(m)]

\* lines 61-69: the correlator path; set_result and set_exception raise
\* InvalidStateError on a future that is done, and nothing catches it
RouteResponse(d, m) ==
    IF ActionID \notin DOMAIN m THEN d
    ELSE LET key == FutureKey(d.futures, m)
         IN  IF key = NoneV THEN d
             ELSE IF Done(d.futures[key.v])
                  THEN [d EXCEPT !.crashed = TRUE]
                  ELSE [d EXCEPT !.futures[key.v] = Resolve(m)]

\* self._event_handlers.get(message['Event'], [])
HandlersFor(handlers, m) ==
    LET name == m[Event]
    IN  IF name.k = "str" /\ name.v \in DOMAIN handlers
        THEN handlers[name.v] ELSE <<>>

\* lines 70-73: the event path; one call_soon per registered callback
RouteEvent(d, m, handlers) ==
    IF Event \notin DOMAIN m THEN d
    ELSE LET hs == HandlersFor(handlers, m)
         IN  [d EXCEPT !.ready =
                 @ \o [i \in DOMAIN hs |-> [callback |-> hs[i], arg |-> m]]]

\* lines 59-74: an empty line
EndOfMessage(d, handlers) ==
    IF DOMAIN d.message = {} THEN d
    ELSE LET m == d.message
             d0 == [d EXCEPT !.assembled = Append(@, m)]
             d1 == RouteResponse(d0, m)
         IN  IF d1.crashed THEN d1
             ELSE [RouteEvent(d1, m, handlers) EXCEPT !.message = EmptyDict]

\* lines 53-58: a non-empty line; appending to a '_' entry that a field
\* line '_: x' set to a string (or to None) raises AttributeError
FieldLine(d, tag) ==
    IF Matches(tag)
    THEN [d EXCEPT !.message = Put(@, Groups(tag)[1], Groups(tag)[2])]
    ELSE IF Underscore \notin DOMAIN d.message
         THEN [d EXCEPT !.message = Put(@, Underscore, List(<<tag>>))]
         ELSE IF d.message[Underscore].k = "list"
              THEN [d EXCEPT !.message =
                       Put(@, Underscore,
                           List(Append(d.message[Underscore].v, tag)))]
              ELSE [d EXCEPT !.crashed = TRUE]

RECURSIVE DispatchLines(_, _, _)
\* lines 52-74: for tag in line.splitlines(); an exception ends the task
DispatchLines(lines, d, handlers) ==
    IF lines = <<>> \/ d.crashed THEN d
    ELSE DispatchLines(Tail(lines),
                       IF Head(lines) # <<>>
                       THEN FieldLine(d, Head(lines))
                       ELSE EndOfMessage(d, handlers),
                       handlers)

\* one chunk taken from the queue and processed
DispatchChunk(chunk, d, handlers) ==
    DispatchLines(SplitLines(chunk), d, handlers)

----------------------------------------------------------------------------
(* sendMessage.                                                            *)

\* id(self): one protocol object lives as long as its AMIConnection
ObjId == <<"7">>

Dash == <<"-">>

\* '{0}'.format(self._hostname)
FormatHostname(h) == IF h = NoneV THEN NoneText ELSE h.v

\* an identifier made of the next count without storing it
GenerateActionIdNoIncrement(h, c) ==
    [count |-> c,
     id |-> FormatHostname(h) \o Dash \o ObjId \o Dash \o FormatInt(c + 1)]

\* _generateActionId, lines 79-80: the counter after the increment and the
\* identifier made of it
GenerateActionId(h, c) ==
    [count |-> c + 1,
     id |-> FormatHostname(h) \o Dash \o ObjId \o Dash \o FormatInt(c + 1)]

RECURSIVE FieldBytesAll(_)
\* field lines that do not leave the caller's identifier field out
FieldBytesAll(data) ==
    IF data = <<>> THEN <<>>
    ELSE Lower(Head(data)[1]) \o <<COLON, SP>> \o Head(data)[2] \o <<LF>>
         \o FieldBytesAll(Tail(data))

RECURSIVE FieldBytes(_)
\* lines 99-100: the lines written for the fields other than the identifier
FieldBytes(data) ==
    IF data = <<>> THEN <<>>
    ELSE (IF Lower(Head(data)[1]) # actionidLower
          THEN Lower(Head(data)[1]) \o <<COLON, SP>> \o Head(data)[2] \o <<LF>>
          ELSE <<>>) \o FieldBytes(Tail(data))

\* a request without its terminating blank line
RequestBytesUnterminated(actionid, data) ==
    ActionID \o <<COLON, SP>> \o actionid \o <<LF>> \o FieldBytes(data)

\* lines 98-101: everything one call writes
RequestBytes(actionid, data) ==
    ActionID \o <<COLON, SP>> \o actionid \o <<LF>> \o FieldBytes(data) \o <<LF>>

\* the identifier the caller put into the fields, if any
Supplied(data) ==
    IF \E i \in DOMAIN data : Lower(data[i][1]) = actionidLower
    THEN Str(data[CHOOSE i \in DOMAIN data :
                      Lower(data[i][1]) = actionidLower][2])
    ELSE NoneV

\* the key under which sendMessage registers the future, lines 95-96
RegisteredKey(data, generated) == generated

\* sendMessage(data) on a protocol whose hostname is h and whose transport
\* is t: the future is registered before the writes, write on an unset
\* transport raises AttributeError, and a transport that is closed drops
\* what is written to it
Sent(data, h, t) ==
    LET g == GenerateActionId(h, count)
        key == RegisteredKey(data, g.id)
    IN  [id |-> key,
         count |-> g.count,
         futures |-> Put(action_futures, key, PendingFuture),
         wire |-> IF t = "open" THEN wire \o RequestBytes(key, data) ELSE wire,
         raised |-> IF t = "none" THEN "AttributeError" ELSE "none"]

----------------------------------------------------------------------------
(* close.                                                                  *)

\* a close that does not cancel the task
LeaveTask(t) == t

\* Task.cancel(): the task waiting in queue.get() is woken with
\* CancelledError on the loop's next iteration; a finished task is left alone
CancelTask(t) == IF t = "waiting" THEN "cancelling" ELSE t

\* a close that leaves the futures alone
CancelNone(futures) == futures

\* lines 42-43
CancelAll(futures) == [id \in DOMAIN futures |-> Cancel(futures[id])]

----------------------------------------------------------------------------
(* on, off and the scheduled callbacks.                                    *)

\* [index for index, value in enumerate(events) if value == callback],
\* counted from 1
IndicesOf(events, callback) ==
    SelectSeq([i \in 1..Len(events) |-> i],
              LAMBDA i : events[i] = callback)

\* list.pop(i), i counted from 1
Pop(events, i) == SubSeq(events, 1, i - 1) \o SubSeq(events, i + 1, Len(events))

RECURSIVE PopEach(_, _)
\* for i in indices: events.pop(i), the indices taken before the first pop;
\* pop raises IndexError on an index past the end of what is left
PopEach(events, indices) ==
    IF indices = <<>> THEN [events |-> events, raised |-> "none"]
    ELSE IF Head(indices) > Len(events)
         THEN [events |-> events, raised |-> "IndexError"]
         ELSE PopEach(Pop(events, Head(indices)), Tail(indices))

\* what a callback run by the loop can do
Outcomes == {"returns", "raises"}

\* a loop that drops what is scheduled when a callback raises
AfterCallbackAbort(outcome, rest) == IF outcome = "raises" THEN <<>> ELSE rest

\* the loop's queue after a scheduled callback has run: the loop catches
\* and logs what a call_soon callback raises
AfterCallback(outcome, rest) == rest

----------------------------------------------------------------------------
(* AMIConnection.                                                          *)

\* AMIConnection.__init__: no coroutine of the connection is running
NewConnection(plaintext) ==
    [plaintext_login |-> plaintext, pc |-> "idle", awaited |-> NoneV,
     in_ping |-> FALSE]

----------------------------------------------------------------------------
(* The inputs: what callers send, what the server answers, what is         *)
(* subscribed.                                                             *)

Action == <<"A", "c", "t", "i", "o", "n">>
Ping == <<"P", "i", "n", "g">>
Success == <<"S", "u", "c", "c", "e", "s", "s">>
Denied == <<"d", "e", "n", "i", "e", "d">>
Id42 == <<"4", "2">>
Up == <<"U", "p">>
up == <<"u", "p">>

Hostnames == {<<"h", ":", "1">>}
EventNames == {Up, up}
Callbacks == {"cb1", "cb2"}

\* the fields passed to sendMessage: without an identifier, and with one
\* under either spelling of the field name
SendInputs ==
    { << <<Action, Ping>> >>,
      << <<ActionID, Id42>>, <<Action, Ping>> >> }

FieldText(name, value) == name \o <<COLON, SP>> \o value \o <<CR, LF>>

ResponseText(id, response) ==
    FieldText(Response, response) \o FieldText(ActionID, id)
    \o (IF response = Error THEN FieldText(Message, Denied) ELSE <<>>)
    \o <<CR, LF>>

EventText(name) == FieldText(Event, name) \o <<CR, LF>>

EventResponseText(id, name) ==
    FieldText(Event, name) \o FieldText(ActionID, id) \o <<CR, LF>>

\* the messages the server may send: answers to the identifiers in use and
\* to the one a caller supplied, and events
ServerChunks ==
    LET ids == DOMAIN action_futures \cup {Id42}
    IN  {ResponseText(id, r) : id \in ids, r \in {Success, Error}}
        \cup {EventText(n) : n \in EventNames}
        \cup {EventResponseText(id, Up) : id \in DOMAIN action_futures}

----------------------------------------------------------------------------
(* login and ping.                                                         *)

Login == <<"L", "o", "g", "i", "n">>
Challenge == <<"C", "h", "a", "l", "l", "e", "n", "g", "e">>
AuthType == <<"A", "u", "t", "h", "T", "y", "p", "e">>
MD5 == <<"M", "D", "5">>
Username == <<"U", "s", "e", "r", "n", "a", "m", "e">>
Key == <<"K", "e", "y">>
Secret == <<"S", "e", "c", "r", "e", "t">>

\* the configured credentials
username == <<"u">>
secret == <<"s", "3">>

\* the challenge values the server hands out
Challenges == {<<"1">>, <<"2">>}

\* '{0}'.format(value)
FormatValue(value) == IF value = NoneV THEN NoneText ELSE value.v

\* a digest that is the text it is given
Md5Plain(text) == text

\* md5(text.encode()).hexdigest(), on the texts login can hash here
Md5Hex(text) ==
    CASE text = <<"1", "s", "3">> ->
           <<"0", "e", "1", "f", "9", "e", "9", "7", "3", "6", "7", "a",
             "2", "7", "c", "a", "2", "8", "4", "c", "1", "f", "d", "e",
             "6", "7", "8", "a", "e", "c", "8", "5">>
      [] text = <<"2", "s", "3">> ->
           <<"6", "3", "3", "c", "0", "c", "e", "8", "d", "0", "4", "e",
             "9", "d", "d", "1", "3", "5", "7", "b", "2", "6", "f", "d",
             "5", "2", "6", "2", "b", "a", "3", "1">>

\* _loginPlainText, lines 661-666
LoginPlainText ==
    << <<Action, Login>>, <<Username, username>>, <<Secret, secret>> >>

\* the first request of _loginChallengeResponse, lines 669-672
ChallengeRequest == << <<Action, Challenge>>, <<AuthType, MD5>> >>

\* the second request of _loginChallengeResponse, lines 673-679
LoginChallengeResponse(challenge) ==
    << <<Action, Login>>, <<AuthType, MD5>>, <<Username, username>>,
       <<Key, Md5Hex(FormatValue(challenge[Challenge]) \o secret)>> >>

\* a login that opens with the Login request in either mode
FirstRequestLogin(plaintext) == LoginPlainText

\* lines 682-685: the request login sends first
FirstRequest(plaintext) ==
    IF plaintext THEN LoginPlainText ELSE ChallengeRequest

\* a wait that takes a failure for an answer without fields
YieldFromAnything(f) ==
    CASE f.state = "result" -> [raised |-> "none", value |-> f.value]
      [] f.state = "exception" -> [raised |-> "none", value |-> Msg(EmptyDict)]
      [] f.state = "cancelled" ->
           [raised |-> "CancelledError", value |-> NoneV]

\* a wait that times out whatever the future holds
YieldFromTimeout(f) == [raised |-> "TimeoutError", value |-> NoneV]

\* yield from a future that is done: its result, or its exception raised
YieldFrom(f) ==
    CASE f.state = "result" -> [raised |-> "none", value |-> f.value]
      [] f.state = "exception" ->
           [raised |-> "AMICommandFailure", value |-> f.value]
      [] f.state = "cancelled" ->
           [raised |-> "CancelledError", value |-> NoneV]

\* a ping that handles nothing
CaughtNothing(exception) == FALSE

\* connection.py line 53, except asyncio.TimeoutError or AMICommandFailure:
\* the expression after except is evaluated first, and 'A or B' of two
\* classes is A
Caught(exception) == exception = "TimeoutError"

----------------------------------------------------------------------------
(* The state machine.                                                      *)

Init ==
    /\ action_futures = EmptyDict
    /\ event_handlers = EmptyDict
    /\ task = "waiting"
    /\ message = EmptyDict
    /\ message_queue = <<>>
    /\ count = 0
    /\ hostname = NoneV
    /\ transport = "none"
    /\ wire = <<>>
    /\ ready = <<>>
    /\ closed = TRUE
    /\ raised = "none"
    /\ assembled = <<>>
    /\ stream = <<>>
    /\ pos = 0
    /\ ops = 0
    /\ lost_with = {}
    /\ connection = NewConnection(FALSE)
    /\ logged = FALSE

\* create_connection succeeds and calls connection_made
ConnectionMade(h) ==
    /\ transport # "open"
    /\ transport' = "open"
    /\ hostname' = Str(h)
    /\ raised' = "none"
    /\ UNCHANGED << action_futures, event_handlers, task, message,
                    message_queue, count, wire, ready, closed, assembled,
                    stream, pos, ops, lost_with,
                    connection, logged >>

\* connection_lost only logs; the socket is gone and delivers nothing more
ConnectionLost ==
    /\ transport = "open"
    /\ transport' = "lost"
    /\ raised' = "none"
    /\ lost_with' = {id \in DOMAIN action_futures :
                        ~Done(action_futures[id])}
    /\ UNCHANGED << action_futures, event_handlers, task, message,
                    message_queue, count, hostname, wire, ready, closed,
                    assembled, stream, pos, ops, connection, logged >>

\* a data_received that puts the chunk before the chunks that wait
DataReceivedFirst(data) ==
    /\ transport = "open"
    /\ message_queue' = <<data>> \o message_queue
    /\ UNCHANGED << action_futures, event_handlers, task, message, count,
                    hostname, transport, wire, ready, closed, raised,
                    assembled, stream, lost_with,
                    connection, logged >>

\* data_received: one chunk is queued
DataReceived(data) ==
    /\ transport = "open"
    /\ message_queue' = Append(message_queue, data)
    /\ UNCHANGED << action_futures, event_handlers, task, message, count,
                    hostname, transport, wire, ready, closed, raised,
                    assembled, stream, lost_with,
                    connection, logged >>

\* the server sends one whole message in one chunk
ReceiveMessage ==
    /\ ops < MaxOps
    /\ \E data \in ServerChunks : DataReceived(data)
    /\ ops' = ops + 1
    /\ pos' = pos

\* a piece of the stream arrives, of any length
ReceivePiece ==
    /\ pos < Len(stream)
    /\ \E n \in 1..(Len(stream) - pos) :
          /\ DataReceived(SubSeq(stream, pos + 1, pos + n))
          /\ pos' = pos + n
          /\ ops' = ops

\* the decode task takes one chunk from the queue and processes its lines
Dispatch ==
    /\ task = "waiting"
    /\ message_queue # <<>>
    /\ LET d == DispatchChunk(Head(message_queue),
                              [message |-> message,
                               futures |-> action_futures,
                               ready |-> ready,
                               assembled |-> assembled,
                               crashed |-> FALSE],
                              event_handlers)
       IN  /\ message' = d.message
           /\ action_futures' = d.futures
           /\ ready' = d.ready
           /\ assembled' = d.assembled
           /\ task' = IF d.crashed THEN "crashed" ELSE "waiting"
    /\ message_queue' = Tail(message_queue)
    /\ UNCHANGED << event_handlers, count, hostname, transport, wire,
                    closed, raised, stream, pos, ops, lost_with,
                    connection, logged >>

\* the cancelled decode task catches CancelledError and returns
TaskCancelled ==
    /\ task = "cancelling"
    /\ task' = "finished"
    /\ UNCHANGED << action_futures, event_handlers, message, message_queue,
                    count, hostname, transport, wire, ready, closed, raised,
                    assembled, stream, pos, ops, lost_with, connection, logged >>

\* the loop runs the next scheduled callback, which returns or raises
RunCallback ==
    /\ ready # <<>>
    /\ \E outcome \in Outcomes :
          /\ ready' = AfterCallback(outcome, Tail(ready))
          /\ logged' = (logged \/ outcome = "raises")
    /\ UNCHANGED << action_futures, event_handlers, task, message,
                    message_queue, count, hostname, transport, wire, closed,
                    raised, assembled, stream, pos, ops, lost_with,
                    connection >>

\* a caller calls sendMessage(data)
SendMessage(data) ==
    /\ ops < MaxOps
    /\ ops' = ops + 1
    /\ LET s == Sent(data, hostname, transport)
       IN  /\ count' = s.count
           /\ action_futures' = s.futures
           /\ wire' = s.wire
           /\ raised' = s.raised
    /\ UNCHANGED << event_handlers, task, message, message_queue, hostname,
                    transport, ready, closed, assembled, stream, pos,
                    lost_with,
                    connection, logged >>

\* self._event_handlers.get(event, [])
Registered(event) ==
    IF event \in DOMAIN event_handlers THEN event_handlers[event] ELSE <<>>

\* on(event, callback)
On(event, callback) ==
    /\ ops < MaxOps
    /\ ops' = ops + 1
    /\ event_handlers' =
          Put(event_handlers, event, Append(Registered(event), callback))
    /\ raised' = "none"
    /\ UNCHANGED << action_futures, task, message, message_queue, count,
                    hostname, transport, wire, ready, closed, assembled,
                    stream, pos, lost_with,
                    connection, logged >>

\* off(event, callback): an event that was never subscribed gets no entry
Off(event, callback) ==
    /\ ops < MaxOps
    /\ ops' = ops + 1
    /\ LET r == PopEach(Registered(event),
                        IndicesOf(Registered(event), callback))
       IN  /\ event_handlers' =
                 IF event \in DOMAIN event_handlers
                 THEN [event_handlers EXCEPT ![event] = r.events]
                 ELSE event_handlers
           /\ raised' = r.raised
    /\ UNCHANGED << action_futures, task, message, message_queue, count,
                    hostname, transport, wire, ready, closed, assembled,
                    stream, pos, lost_with, connection, logged >>

\* AMIConnection.close, then AMIProtocol.close: transport.close() raises
\* AttributeError on an unset transport, after the futures are cancelled
Close ==
    /\ closed' = TRUE
    /\ task' = CancelTask(task)
    /\ action_futures' = CancelAll(action_futures)
    /\ transport' = IF transport = "none" THEN "none" ELSE "closed"
    /\ raised' = IF transport = "none" THEN "AttributeError" ELSE "none"
    /\ UNCHANGED << event_handlers, message, message_queue, count, hostname,
                    wire, ready, assembled, stream, pos, ops, lost_with,
                    connection, logged >>

\* a caller gives up on its request: asyncio.wait_for cancels the future it
\* waits for when the timeout expires
CancelFuture(id) ==
    /\ id \in DOMAIN action_futures
    /\ ~Done(action_futures[id])
    /\ action_futures' = [action_futures EXCEPT ![id] = Cancel(@)]
    /\ UNCHANGED << event_handlers, task, message, message_queue, count,
                    hostname, transport, wire, ready, closed, raised,
                    assembled, stream, pos, ops, lost_with, connection, logged >>

Next ==
    \/ \E h \in Hostnames : ConnectionMade(h)
    \/ ConnectionLost
    \/ ReceiveMessage
    \/ Dispatch
    \/ TaskCancelled
    \/ RunCallback
    \/ \E data \in SendInputs : SendMessage(data)
    \/ \E event \in EventNames, callback \in Callbacks : On(event, callback)
    \/ \E event \in EventNames, callback \in Callbacks : Off(event, callback)
    \/ \E id \in DOMAIN action_futures : CancelFuture(id)
    \/ Close

Spec == Init /\ [][Next]_vars

\* Dispatch can take a step: it always changes the queue
DispatchEnabled == task = "waiting" /\ message_queue # <<>>

\* what the event loop guarantees: a task that can run is run, a scheduled
\* callback is called.  The first conjunct is WF_vars(Dispatch) written
\* out with its enabling condition.
Fairness ==
    /\ []<>(~DispatchEnabled) \/ []<><<Dispatch>>_vars
    /\ WF_vars(TaskCancelled)
    /\ WF_vars(RunCallback)

LiveSpec == Init /\ [][Next]_vars /\ Fairness

----------------------------------------------------------------------------
(* AMIConnection: connect and ping, with a server that answers the request *)
(* the connection waits for.                                               *)

\* protocol.py lines 932-934
PingRequest == << <<Action, Ping>> >>

\* the success response to a Challenge request
ChallengeText(id, challenge) ==
    FieldText(Response, Success) \o FieldText(ActionID, id)
    \o FieldText(Challenge, challenge) \o <<CR, LF>>

\* what the server may answer to the request id
AnswersTo(id) ==
    {ResponseText(id, r) : r \in {Success, Error}}
    \cup (IF connection.pc = "challenge"
          THEN {ChallengeText(id, c) : c \in Challenges} ELSE {})

\* the coroutine of the connection has returned or raised
Ended ==
    [connection EXCEPT !.pc = "idle", !.awaited = NoneV, !.in_ping = FALSE]

\* the future the coroutine of the connection waits for
AwaitedFuture == action_futures[connection.awaited.v]

\* a caller calls connect(): create_connection is under way
Connect ==
    /\ ops < MaxOps
    /\ ops' = ops + 1
    /\ connection.pc = "idle"
    /\ connection' = [connection EXCEPT !.pc = "connect"]
    /\ raised' = "none"
    /\ UNCHANGED << action_futures, event_handlers, task, message,
                    message_queue, count, hostname, transport, wire, ready,
                    closed, assembled, stream, pos, lost_with, logged >>

\* create_connection calls connection_made on the one protocol object and
\* returns; connect goes on into login, up to its first wait
Connected(h) ==
    /\ connection.pc = "connect"
    /\ transport' = "open"
    /\ hostname' = Str(h)
    /\ LET s == Sent(FirstRequest(connection.plaintext_login), Str(h), "open")
       IN  /\ count' = s.count
           /\ action_futures' = s.futures
           /\ wire' = s.wire
           /\ connection' =
                 [connection EXCEPT
                     !.pc = IF connection.plaintext_login
                            THEN "login" ELSE "challenge",
                     !.awaited = Str(s.id)]
    /\ raised' = "none"
    /\ UNCHANGED << event_handlers, task, message, message_queue, ready,
                    closed, assembled, stream, pos, ops, lost_with, logged >>

\* create_connection raises: connect, and a ping that called it, raise
ConnectFailed ==
    /\ connection.pc = "connect"
    /\ connection' = Ended
    /\ raised' = "OSError"
    /\ UNCHANGED << action_futures, event_handlers, task, message,
                    message_queue, count, hostname, transport, wire, ready,
                    closed, assembled, stream, pos, ops, lost_with, logged >>

\* the server answers the request the connection waits for, once
ServerAnswer ==
    /\ connection.awaited # NoneV
    /\ ~Done(AwaitedFuture)
    /\ \A i \in DOMAIN message_queue :
           message_queue[i] \notin AnswersTo(connection.awaited.v)
    /\ \E data \in AnswersTo(connection.awaited.v) : DataReceived(data)
    /\ UNCHANGED << pos, ops >>

\* login resumes when the future it waits for is done, lines 668-690, and
\* connect after it, connection.py lines 43-44
LoginStep ==
    /\ connection.pc \in {"challenge", "login"}
    /\ Done(AwaitedFuture)
    /\ LET y == YieldFrom(AwaitedFuture)
       IN  IF y.raised # "none"
           THEN /\ connection' = Ended
                /\ raised' = y.raised
                /\ UNCHANGED << action_futures, count, wire, closed >>
           ELSE IF connection.pc = "login"
           THEN /\ closed' = FALSE
                /\ connection' = Ended
                /\ raised' = "none"
                /\ UNCHANGED << action_futures, count, wire >>
           ELSE IF Challenge \notin DOMAIN y.value.v
           THEN /\ connection' = Ended
                /\ raised' = "KeyError"
                /\ UNCHANGED << action_futures, count, wire, closed >>
           ELSE LET s == Sent(LoginChallengeResponse(y.value.v),
                              hostname, transport)
                IN  /\ count' = s.count
                    /\ action_futures' = s.futures
                    /\ wire' = s.wire
                    /\ raised' = s.raised
                    /\ connection' = [connection EXCEPT !.pc = "login",
                                                        !.awaited = Str(s.id)]
                    /\ closed' = closed
    /\ UNCHANGED << event_handlers, task, message, message_queue, hostname,
                    transport, ready, assembled, stream, pos, ops, lost_with,
                    logged >>

\* a caller calls AMIConnection.ping(): the request is sent and waited for
ConnectionPing ==
    /\ ops < MaxOps
    /\ ops' = ops + 1
    /\ connection.pc = "idle"
    /\ LET s == Sent(PingRequest, hostname, transport)
       IN  /\ count' = s.count
           /\ action_futures' = s.futures
           /\ wire' = s.wire
           /\ raised' = s.raised
           /\ connection' =
                 IF s.raised = "none"
                 THEN [connection EXCEPT !.pc = "ping", !.in_ping = TRUE,
                                         !.awaited = Str(s.id)]
                 ELSE connection
    /\ UNCHANGED << event_handlers, task, message, message_queue, hostname,
                    transport, ready, closed, assembled, stream, pos,
                    lost_with, logged >>

\* connection.py lines 53-55: wait_for has raised exception, the table of
\* futures being futures; when the except clause takes it, close() and
\* then connect()
PingRaised(exception, futures) ==
    IF Caught(exception)
    THEN /\ closed' = TRUE
         /\ task' = CancelTask(task)
         /\ action_futures' = CancelAll(futures)
         /\ transport' = IF transport = "none" THEN "none" ELSE "closed"
         /\ raised' = IF transport = "none" THEN "AttributeError" ELSE "none"
         /\ connection' =
               IF transport = "none" THEN Ended
               ELSE [connection EXCEPT !.pc = "connect", !.awaited = NoneV]
    ELSE /\ action_futures' = futures
         /\ raised' = exception
         /\ connection' = Ended
         /\ UNCHANGED << closed, task, transport >>

\* the future ping waits for is done: wait_for returns its result or
\* raises its exception
PingStep ==
    /\ connection.pc = "ping"
    /\ Done(AwaitedFuture)
    /\ LET y == YieldFrom(AwaitedFuture)
       IN  IF y.raised = "none"
           THEN /\ connection' = Ended
                /\ raised' = "none"
                /\ UNCHANGED << action_futures, closed, task, transport >>
           ELSE PingRaised(y.raised, action_futures)
    /\ UNCHANGED << event_handlers, message, message_queue, count, hostname,
                    wire, ready, assembled, stream, pos, ops, lost_with,
                    logged >>

\* the timeout expires first: wait_for cancels the future and raises
\* TimeoutError
PingTimeout ==
    /\ connection.pc = "ping"
    /\ ~Done(AwaitedFuture)
    /\ PingRaised("TimeoutError",
                  [action_futures EXCEPT ![connection.awaited.v] = Cancel(@)])
    /\ UNCHANGED << event_handlers, message, message_queue, count, hostname,
                    wire, ready, assembled, stream, pos, ops, lost_with,
                    logged >>

InitConn ==
    /\ action_futures = EmptyDict
    /\ event_handlers = EmptyDict
    /\ task = "waiting"
    /\ message = EmptyDict
    /\ message_queue = <<>>
    /\ count = 0
    /\ hostname = NoneV
    /\ transport = "none"
    /\ wire = <<>>
    /\ ready = <<>>
    /\ closed = TRUE
    /\ raised = "none"
    /\ assembled = <<>>
    /\ stream = <<>>
    /\ pos = 0
    /\ ops = 0
    /\ lost_with = {}
    /\ connection \in {NewConnection(plaintext) : plaintext \in BOOLEAN}
    /\ logged = FALSE

NextConn ==
    \/ Connect
    \/ \E h \in Hostnames : Connected(h)
    \/ ConnectFailed
    \/ ServerAnswer
    \/ Dispatch
    \/ TaskCancelled
    \/ LoginStep
    \/ ConnectionPing
    \/ PingStep
    \/ PingTimeout
    \/ Close

SpecConn == InitConn /\ [][NextConn]_vars

\* the same, with a socket that may be lost at any time
NextLost ==
    \/ NextConn
    \/ ConnectionLost

SpecLost == InitConn /\ [][NextLost]_vars

\* login, and ping, can resume: each changes connection when it does
LoginStepEnabled ==
    connection.pc \in {"challenge", "login"} /\ Done(AwaitedFuture)

PingStepEnabled == connection.pc = "ping" /\ Done(AwaitedFuture)

\* the loop resumes a coroutine whose future is done: weak fairness of
\* LoginStep and of PingStep, written out with their enabling conditions
FairnessConn ==
    /\ Fairness
    /\ []<>(~LoginStepEnabled) \/ []<><<LoginStep>>_vars
    /\ []<>(~PingStepEnabled) \/ []<><<PingStep>>_vars

LiveConnSpec == InitConn /\ [][NextConn]_vars /\ FairnessConn

----------------------------------------------------------------------------
(* The sending specification: callers call sendMessage with any fields,    *)
(* on a protocol that is unconnected, connected or closed.                 *)

\* the fields a caller may pass: the identifier under two spellings, and
\* two other fields, one of them with an upper-case name
Fields ==
    { <<ActionID, Id42>>, <<actionidLower, Id42>>,
      <<Action, Ping>>, <<Key, <<"V">> >> }

\* the requests of up to two fields
SendFields ==
    {<<f>> : f \in Fields} \cup {<<f, g>> : f \in Fields, g \in Fields}

NextSend ==
    \/ \E h \in Hostnames : ConnectionMade(h)
    \/ \E data \in SendFields : SendMessage(data)
    \/ Close

SpecSend == Init /\ [][NextSend]_vars

----------------------------------------------------------------------------
(* The decoding specification: the server sends any lines, each whole in   *)
(* one chunk, to a protocol on which callbacks may be registered and       *)
(* requests sent, whose futures the caller may cancel.                     *)

\* the lines the server may send besides the identifier of a request:
\* fields with and without a value, a field named '_', free text, an event,
\* and the empty line
Lines ==
    { <<"a", COLON, SP, "1">>, <<"a", COLON, SP, "2">>, <<"a", COLON>>,
      <<"_", COLON, SP, "x">>, <<"f", "r", "e", "e">>,
      Event \o <<COLON, SP>> \o Up, <<>> }

\* the server sends one line and its terminator
ReceiveLine ==
    /\ ops < MaxOps
    /\ \E line \in Lines \cup {ActionID \o <<COLON, SP>> \o id :
                                  id \in DOMAIN action_futures} :
          DataReceived(line \o <<CR, LF>>)
    /\ ops' = ops + 1
    /\ pos' = pos

NextDecode ==
    \/ \E h \in Hostnames : ConnectionMade(h)
    \/ ReceiveLine
    \/ Dispatch
    \/ \E callback \in Callbacks : On(Up, callback)
    \/ RunCallback
    \/ SendMessage(<< <<Action, Ping>> >>)
    \/ \E id \in DOMAIN action_futures : CancelFuture(id)

SpecDecode == Init /\ [][NextDecode]_vars

\* the server sends a message whose field names are in lower case
ReceiveSpelled ==
    /\ ops < MaxOps
    /\ \E data \in
           {FieldText(Lower(Response), r) \o FieldText(Lower(ActionID), id)
                \o <<CR, LF>> :
              r \in {Success, Error}, id \in DOMAIN action_futures}
           \cup {FieldText(Lower(Event), Up) \o <<CR, LF>>} :
          DataReceived(data)
    /\ ops' = ops + 1
    /\ pos' = pos

NextCase ==
    \/ Next
    \/ ReceiveSpelled

SpecCase == Init /\ [][NextCase]_vars

----------------------------------------------------------------------------
(* The chunking specification: a connected protocol is fed one stream of   *)
(* well-formed messages, cut into pieces at any positions.                 *)

Streams ==
    { FieldText(<<"a">>, <<"1">>) \o <<CR, LF>>,
      <<"a", COLON, SP, "1", LF, LF, "b", COLON, SP, "2", LF, LF>> }

InitChunk ==
    /\ action_futures = EmptyDict
    /\ event_handlers = EmptyDict
    /\ task = "waiting"
    /\ message = EmptyDict
    /\ message_queue = <<>>
    /\ count = 0
    /\ hostname \in {Str(h) : h \in Hostnames}
    /\ transport = "open"
    /\ wire = <<>>
    /\ ready = <<>>
    /\ closed = TRUE
    /\ raised = "none"
    /\ assembled = <<>>
    /\ stream \in Streams
    /\ pos = 0
    /\ ops = 0
    /\ lost_with = {}
    /\ connection = NewConnection(FALSE)
    /\ logged = FALSE

NextChunk ==
    \/ ReceivePiece
    \/ Dispatch

SpecChunk == InitChunk /\ [][NextChunk]_vars

----------------------------------------------------------------------------
(* The ordering specification: two requests are outstanding and a callback *)
(* is subscribed; the server's stream answers the first request and then   *)
(* the second, each answer being an event too, and arrives cut into pieces *)
(* at any positions while callers go on sending.                           *)

\* the identifier of the n-th request sent on the connection
OrderId(n) == GenerateActionId(Str(<<"h", ":", "1">>), n - 1).id

\* the answer to the n-th request
OrderText(n) ==
    FieldText(ActionID, OrderId(n)) \o FieldText(Event, Up) \o <<CR, LF>>

\* the state after connection_made, sendMessage twice and on(Up, cb1)
InitOrder ==
    /\ action_futures = Put(Put(EmptyDict, OrderId(1), PendingFuture),
                            OrderId(2), PendingFuture)
    /\ event_handlers = Put(EmptyDict, Up, <<"cb1">>)
    /\ task = "waiting"
    /\ message = EmptyDict
    /\ message_queue = <<>>
    /\ count = 2
    /\ hostname = Str(<<"h", ":", "1">>)
    /\ transport = "open"
    /\ wire = RequestBytes(OrderId(1), PingRequest)
                 \o RequestBytes(OrderId(2), PingRequest)
    /\ ready = <<>>
    /\ closed = TRUE
    /\ raised = "none"
    /\ assembled = <<>>
    /\ stream = OrderText(1) \o OrderText(2)
    /\ pos = 0
    /\ ops = 0
    /\ lost_with = {}
    /\ connection = NewConnection(FALSE)
    /\ logged = FALSE

\* the next piece of the stream arrives, of any length; the stream comes
\* in fewer than MaxOps pieces
ReceiveCut ==
    /\ ops + 1 < MaxOps
    /\ pos < Len(stream)
    /\ \E n \in 1..(Len(stream) - pos) :
          /\ DataReceived(SubSeq(stream, pos + 1, pos + n))
          /\ pos' = pos + n
    /\ ops' = ops + 1

NextOrder ==
    \/ ReceiveCut
    \/ Dispatch
    \/ SendMessage(PingRequest)

SpecOrder == InitOrder /\ [][NextOrder]_vars

----------------------------------------------------------------------------
(* Properties.                                                             *)

\* the messages the decode task completes in a step
NewMessages == SubSeq(assembled', Len(assembled) + 1, Len(assembled'))

\* the stream delivered to a fresh decode task as one chunk
OneChunk(text) ==
    DispatchChunk(text,
                  [message |-> EmptyDict, futures |-> EmptyDict,
                   ready |-> <<>>, assembled |-> <<>>, crashed |-> FALSE],
                  EmptyDict).assembled

\* C1: once a stream of well-formed messages is delivered and decoded, the
\* messages assembled are those of the stream delivered as one chunk,
\* however the stream was cut into data_received chunks.
C1_ChunkingIndependent ==
    (pos = Len(stream) /\ message_queue = <<>>)
        => assembled = OneChunk(stream)

\* the pending future id is resolved in this step
ResolvedNow(id) ==
    /\ id \in DOMAIN action_futures
    /\ ~Done(action_futures[id])
    /\ action_futures'[id].state \in {"result", "exception"}

\* C2: a future is resolved only in a step that assembles a message whose
\* ActionID is the identifier the future is registered under, and a result
\* is that whole message.
C2_ResolvedByOwnResponse ==
    [][\A id \in DOMAIN action_futures :
          ResolvedNow(id) =>
              \E i \in DOMAIN NewMessages :
                  /\ ActionID \in DOMAIN NewMessages[i]
                  /\ NewMessages[i][ActionID] = Str(id)
                  /\ action_futures'[id].state = "result"
                        => action_futures'[id].value = Msg(NewMessages[i])]_vars

\* the second request sent is answered while the first is outstanding
C2_Witness ==
    \E id1, id2 \in DOMAIN action_futures :
        /\ id1 = GenerateActionId(Str(<<"h", ":", "1">>), 0).id
        /\ id2 = GenerateActionId(Str(<<"h", ":", "1">>), 1).id
        /\ action_futures[id1].state = "pending"
        /\ action_futures[id2].state = "result"
        /\ action_futures[id2].value.v[ActionID] = Str(id2)

\* C3: every sendMessage call raises the counter and registers, and writes,
\* its request under an identifier that was never in the table before.
C3_FreshIdentifier ==
    [][\A data \in SendInputs :
          SendMessage(data) =>
              /\ count' > count
              /\ \E id \in DOMAIN action_futures' \ DOMAIN action_futures :
                    /\ action_futures' = Put(action_futures, id, PendingFuture)
                    /\ transport = "open"
                          => wire' = wire \o RequestBytes(id, data)]_vars

\* two requests are registered under two identifiers
C3_Witness ==
    /\ count = 2
    /\ Cardinality(DOMAIN action_futures) = 2
    /\ \A id \in DOMAIN action_futures : action_futures[id].state = "pending"

\* C4: a message with Response: Error and the identifier of a pending
\* request makes that future fail with the content of the Message field,
\* and changes no other future.
C4_ErrorFailsItsRequest ==
    [][\A i \in DOMAIN NewMessages :
          LET m == NewMessages[i]
          IN  (/\ Len(NewMessages) = 1
               /\ ActionID \in DOMAIN m
               /\ m[ActionID].k = "str"
               /\ m[ActionID].v \in DOMAIN action_futures
               /\ ~Done(action_futures[m[ActionID].v])
               /\ Get(m, Response) = Str(Error))
              => action_futures' =
                    [action_futures EXCEPT ![m[ActionID].v] =
                        [state |-> "exception",
                         value |-> Get(m, Message)]]]_vars

\* one request has failed with the server's text, another is outstanding
C4_Witness ==
    \E id1, id2 \in DOMAIN action_futures :
        /\ action_futures[id1] = [state |-> "exception", value |-> Str(Denied)]
        /\ action_futures[id2].state = "pending"

\* C5: a message with the identifier of a future that is already done
\* changes no future and leaves the decode task running.
C5_LateResponseIsNoOp ==
    [][\A i \in DOMAIN NewMessages :
          LET m == NewMessages[i]
          IN  (/\ ActionID \in DOMAIN m
               /\ m[ActionID].k = "str"
               /\ m[ActionID].v \in DOMAIN action_futures
               /\ Done(action_futures[m[ActionID].v]))
              => /\ action_futures'[m[ActionID].v]
                       = action_futures[m[ActionID].v]
                 /\ task' = "waiting"]_vars

\* C6: close leaves no future of the table pending, and a future that is
\* done stays in the table and stays done.
C6_CloseResolvesAll ==
    [][/\ Close => \A id \in DOMAIN action_futures :
                       Done(action_futures'[id])
       /\ \A id \in DOMAIN action_futures :
              Done(action_futures[id])
                  => id \in DOMAIN action_futures'
                     /\ Done(action_futures'[id])]_vars

\* close was called with two requests outstanding
C6_Witness ==
    /\ transport = "closed"
    /\ task \in {"cancelling", "finished"}
    /\ Cardinality(DOMAIN action_futures) = 2
    /\ \A id \in DOMAIN action_futures :
           action_futures[id].state = "cancelled"

\* every identifier sendMessage can generate within the bounds
AllIds ==
    {GenerateActionId(h, c).id :
        h \in {NoneV} \cup {Str(x) : x \in Hostnames}, c \in 0..MaxOps}

\* the request registered under id is outstanding
Outstanding(id) == id \in DOMAIN action_futures /\ ~Done(action_futures[id])

\* C7: a request that is outstanding when the transport is lost is
\* eventually done.
C7_LostFailsOutstanding ==
    \A id \in AllIds :
        [](id \in lost_with => <>(~Outstanding(id)))

\* C8: sendMessage on a transport that is unset or closed raises, and
\* leaves the table of futures and the counter as they were.
C8_SendNotConnectedFails ==
    [][\A data \in SendInputs :
          (transport # "open" /\ SendMessage(data))
              => /\ raised' # "none"
                 /\ action_futures' = action_futures
                 /\ count' = count]_vars

\* C9: when the fields hold an identifier, none is generated, and the
\* request is registered and written under the caller's identifier.
C9_SuppliedIdentifierUsed ==
    [][\A data \in SendInputs :
          (Supplied(data) # NoneV /\ SendMessage(data))
              => /\ count' = count
                 /\ Supplied(data).v \in DOMAIN action_futures'
                 /\ transport = "open"
                       => wire' = wire
                              \o RequestBytes(Supplied(data).v, data)]_vars

RECURSIVE ExpectedCalls(_)
\* the calls due for a sequence of messages: for each message with an
\* Event field, the callbacks registered under exactly that name, in the
\* order of registration, each with the message
ExpectedCalls(msgs) ==
    IF msgs = <<>> THEN <<>>
    ELSE LET m == Head(msgs)
             hs == IF Event \in DOMAIN m /\ m[Event].k = "str"
                   THEN Registered(m[Event].v) ELSE <<>>
         IN  [i \in DOMAIN hs |-> [callback |-> hs[i], arg |-> m]]
             \o ExpectedCalls(Tail(msgs))

\* C10: the callbacks scheduled for the messages a step assembles are
\* those registered under the messages' event names, in order.
C10_EventCallbacksScheduled ==
    [][NewMessages # <<>> => ready' = ready \o ExpectedCalls(NewMessages)]_vars

\* C11: off(event, callback) does not raise and leaves under event the
\* callbacks other than callback, all of them, in their order.
C11_OffRemovesCallback ==
    [][\A event \in EventNames, callback \in Callbacks :
          Off(event, callback)
              => /\ raised' = "none"
                 /\ (IF event \in DOMAIN event_handlers'
                     THEN event_handlers'[event] ELSE <<>>)
                    = SelectSeq(Registered(event),
                                LAMBDA x : x # callback)]_vars

\* no callback is registered under the event name of m, if it has one
NoCallbackFor(m) ==
    (Event \in DOMAIN m /\ m[Event].k = "str")
        => Registered(m[Event].v) = <<>>

\* no pending request is registered under the identifier of m, if it has one
NoPendingFor(m) ==
    (ActionID \in DOMAIN m /\ m[ActionID].k = "str")
        => ~Outstanding(m[ActionID].v)

\* C12: a message with no callback registered for its event name and no
\* pending request under its identifier schedules no callback, changes no
\* future and leaves the decode task running.
C12_UnroutedMessageDropped ==
    [][\A i \in DOMAIN NewMessages :
          LET m == NewMessages[i]
          IN  (/\ Len(NewMessages) = 1
               /\ NoCallbackFor(m)
               /\ NoPendingFor(m))
              => /\ ready' = ready
                 /\ action_futures' = action_futures
                 /\ task' = "waiting"]_vars

\* C13: a message with both an identifier and an event name has the
\* callbacks of its event name scheduled whatever future its identifier
\* finds, and a pending future under its identifier resolved whatever
\* callbacks are registered.
C13_BothPathsIndependent ==
    [][\A i \in DOMAIN NewMessages :
          LET m == NewMessages[i]
          IN  (/\ Len(NewMessages) = 1
               /\ ActionID \in DOMAIN m
               /\ m[ActionID].k = "str"
               /\ Event \in DOMAIN m)
              => /\ ready' = ready \o ExpectedCalls(<<m>>)
                 /\ Outstanding(m[ActionID].v)
                       => Done(action_futures'[m[ActionID].v])]_vars

\* C14: a callback that raises leaves the callbacks scheduled after it, the
\* decode task and the queue as they are; a decode step only adds to the
\* scheduled callbacks and runs none.
C14_RaisingCallbackIsolated ==
    [][/\ (ready # <<>> /\ logged' # logged)
           => /\ ready' = Tail(ready)
              /\ task' = task
              /\ message_queue' = message_queue
       /\ NewMessages # <<>>
           => /\ logged' = logged
              /\ Len(ready') >= Len(ready)
              /\ SubSeq(ready', 1, Len(ready)) = ready]_vars

\* the first of two callbacks scheduled for one event has raised, the
\* second is still scheduled and the decode task waits for data
C14_Witness ==
    /\ logged
    /\ Len(ready) = 1
    /\ ready[1].callback = "cb2"
    /\ task = "waiting"

\* sub occurs in text
Contains(text, sub) ==
    \E i \in 1..(Len(text) - Len(sub) + 1) :
        SubSeq(text, i, i + Len(sub) - 1) = sub

\* what a step writes to the transport
NewBytes == SubSeq(wire', Len(wire) + 1, Len(wire'))

\* what a step writes, with the n characters written before it: a text of
\* n + 1 characters that the step completes lies in here
NewBytesAfter(n) ==
    SubSeq(wire', IF Len(wire) > n THEN Len(wire) - n + 1 ELSE 1, Len(wire'))

\* a written field line
WrittenLine(name, value) == Lower(name) \o <<COLON, SP>> \o value \o <<LF>>

\* the coroutine of the connection resumes in this step with the future
\* it waits for in the given state
Resumes(pcs, state) ==
    /\ connection.pc \in pcs
    /\ AwaitedFuture.state = state
    /\ connection' # connection

\* C15: in challenge/response login a Login request is written only by
\* the step that resumes login with the success response to its Challenge
\* request; when the Challenge request has failed, login raises the
\* failure and writes nothing.
C15_LoginAfterChallenge ==
    [][~connection.plaintext_login =>
          /\ Contains(NewBytes, WrittenLine(Action, Login))
                => /\ connection.pc = "challenge"
                   /\ AwaitedFuture.state = "result"
                   /\ Get(AwaitedFuture.value.v, Response) = Str(Success)
          /\ Resumes({"challenge"}, "exception")
                => /\ wire' = wire
                   /\ raised' = "AMICommandFailure"
                   /\ connection'.pc = "idle"]_vars

\* the Challenge request has failed and login has raised, no Login request
\* written
C15_Witness ==
    /\ ~connection.plaintext_login
    /\ connection.pc = "idle"
    /\ raised = "AMICommandFailure"
    /\ Contains(wire, WrittenLine(Action, Challenge))
    /\ ~Contains(wire, WrittenLine(Action, Login))

C18_TimeoutClosesAndReconnects ==
    [][PingTimeout
          => /\ closed' = TRUE
             /\ transport' = "closed"
             /\ \A id \in DOMAIN action_futures' : Done(action_futures'[id])
             /\ connection'.pc = "connect"
             /\ connection'.in_ping]_vars

\* the connect that ping started after its close has opened a new
\* transport and sent its first request
C18_Witness ==
    /\ connection.in_ping
    /\ connection.pc \in {"challenge", "login"}
    /\ closed
    /\ transport = "open"
    /\ \E id \in DOMAIN action_futures : action_futures[id].state = "cancelled"

\* C19: when the request of ping is answered with an error response, the
\* connection is closed and a connect is under way.
C19_FailureClosesAndReconnects ==
    [][(Resumes({"ping"}, "exception") /\ PingStep)
          => /\ closed' = TRUE
             /\ connection'.pc = "connect"]_vars

\* the connect that ping re-ran waits for the answer to a login request,
\* and the server's success answer to it has been received
ReconnectAnswered ==
    /\ connection.in_ping
    /\ connection.pc \in {"challenge", "login"}
    /\ \E i \in DOMAIN message_queue :
           message_queue[i] \in
               AnswersTo(connection.awaited.v)
                   \ {ResponseText(connection.awaited.v, Error)}

\* C20: a success answer received by the connect that ping re-ran is
\* eventually taken from the queue and routed to the login that waits.
C20_ReconnectCompletes == ReconnectAnswered ~> ~ReconnectAnswered

\* a written line that holds the identifier field, in any spelling
IsIdLine(line) ==
    /\ Len(line) >= Len(actionidLower) + 1
    /\ Lower(SubSeq(line, 1, Len(actionidLower) + 1))
           = actionidLower \o <<COLON>>

RECURSIVE WholeRequests(_, _)
\* lines is a sequence of whole requests: an identifier line, lines of
\* other fields, an empty line; inside tells that a request has begun
WholeRequests(lines, inside) ==
    IF lines = <<>> THEN ~inside
    ELSE IF ~inside
         THEN IsIdLine(Head(lines)) /\ WholeRequests(Tail(lines), TRUE)
         ELSE IF Head(lines) = <<>>
              THEN WholeRequests(Tail(lines), FALSE)
              ELSE ~IsIdLine(Head(lines)) /\ WholeRequests(Tail(lines), TRUE)

RECURSIVE ExpectedFieldLines(_)
\* one line for each field that is not the identifier, in the order given
ExpectedFieldLines(data) ==
    IF data = <<>> THEN <<>>
    ELSE (IF Lower(Head(data)[1]) = actionidLower THEN <<>>
          ELSE << Lower(Head(data)[1]) \o <<COLON, SP>> \o Head(data)[2] >>)
         \o ExpectedFieldLines(Tail(data))

C29_TableHoldsOnlyPending ==
    \A id \in DOMAIN action_futures : ~Done(action_futures[id])

\* C24: close leaves the decode task cancelled or ended, a cancelled task
\* ends by returning, a task that has ended is not started again, and a
\* cancelled task does end.
C24_CloseEndsTask ==
    /\ [][/\ Close => (task' # "waiting")
          /\ (task = "cancelling" /\ task' # task) => (task' = "finished")
          /\ (task \in {"finished", "crashed"}) => (task' = task)]_vars
    /\ (task = "cancelling") ~> (task = "finished")

\* the task has ended after a close
C24_Witness ==
    /\ task = "finished"
    /\ transport = "closed"

\* the decode task takes a chunk from the queue in this step
Dequeues == message_queue # <<>> /\ message_queue' = Tail(message_queue)

\* the line of a chunk that is one line and its terminator
DequeuedLine == SubSeq(Head(message_queue), 1, Len(Head(message_queue)) - 2)

\* the free-text list of a message
FreeText(m) ==
    IF Underscore \in DOMAIN m /\ m[Underscore].k = "list"
    THEN m[Underscore].v ELSE <<>>

\* C22: whatever line that is not empty the decode task takes, it is
\* still running after it, and a line that is no field line is appended to
\* the free-text list of the message under '_'.
C22_DecodingNeverAborts ==
    [][(Dequeues /\ DequeuedLine # <<>>) =>
          /\ task' = "waiting"
          /\ ~Matches(DequeuedLine)
                => message' = Put(message, Underscore,
                                  List(Append(FreeText(message),
                                              DequeuedLine)))]_vars

\* the value, as a Python value, that is stored under name when names are
\* compared without regard to case
GetAnyCase(m, name) ==
    IF \E key \in DOMAIN m : Lower(key) = Lower(name)
    THEN m[CHOOSE key \in DOMAIN m : Lower(key) = Lower(name)]
    ELSE NoneV

\* C23: a message whose identifier field, in any spelling, names a pending
\* request makes that future done, failed when its response field, in any
\* spelling, is Error; a message without identifier whose event field, in
\* any spelling, names an event has the callbacks of the event scheduled.
C23_FieldNamesAnyCase ==
    [][\A i \in DOMAIN NewMessages :
          LET m == NewMessages[i]
              id == GetAnyCase(m, ActionID)
              name == GetAnyCase(m, Event)
          IN  /\ (id.k = "str" /\ Outstanding(id.v))
                    => /\ Done(action_futures'[id.v])
                       /\ GetAnyCase(m, Response) = Str(Error)
                             => action_futures'[id.v].state = "exception"
              /\ (id = NoneV /\ name.k = "str" /\ Len(NewMessages) = 1)
                    => ready' = ready \o
                          [j \in DOMAIN Registered(name.v) |->
                              [callback |-> Registered(name.v)[j],
                               arg |-> m]]]_vars

\* C27: an empty line taken with something accumulated completes exactly
\* one message, has it routed to the callbacks of its event and leaves
\* nothing accumulated; an empty line taken with nothing accumulated
\* changes nothing.
C27_BlankLineEndsMessage ==
    [][(Dequeues /\ DequeuedLine = <<>>) =>
          IF message # EmptyDict
          THEN /\ assembled' = Append(assembled, message)
               /\ ready' = ready \o ExpectedCalls(<<message>>)
               /\ message' = EmptyDict
          ELSE UNCHANGED << message, assembled, ready, action_futures,
                           task >>]_vars

\* the position of the first colon of a line that has one
FirstColon(line) ==
    CHOOSE i \in DOMAIN line :
        line[i] = COLON /\ \A j \in 1..(i - 1) : line[j] # COLON

\* C28: a field line sets its token, in the current message, to its
\* value, or to the empty string when it has none, whatever the token was
\* set to before.
C28_FieldLineRecorded ==
    [][(Dequeues /\ Matches(DequeuedLine)) =>
          LET i == FirstColon(DequeuedLine)
              token == SubSeq(DequeuedLine, 1, i - 1)
              value == SkipWhitespace(SubSeq(DequeuedLine, i + 1,
                                             Len(DequeuedLine)))
          IN  message' = Put(message, token, Str(value))]_vars

\* C25: when the socket is lost, the connection is closed (closed is True)
\* from then on, without a call of close().
C25_LostConnectionIsClosed ==
    [][(transport = "open" /\ transport' = "lost") => closed']_vars

\* create_connection returns in this step: connection_made has run on the
\* protocol object and login has sent its first request
Connects == connection.pc = "connect" /\ connection'.pc # "connect"
                /\ transport' = "open"

\* C30: a connection made after close() starts with an empty table of
\* futures and a counter that starts again: after the first request of its
\* login, the table holds that request alone and the counter is 1.
C30_FreshStatePerConnection ==
    [][(transport = "closed" /\ Connects)
          => /\ count' = 1
             /\ DOMAIN action_futures' = {connection'.awaited.v}]_vars

\* C31: while the connection is ready (closed is False), its decode task
\* is alive, waiting for the queue or taking from it.
C31_ReadyHasDecodeTask == ~closed => task = "waiting"

\* C35: the connection becomes ready (closed turns False) only in a step
\* of connect whose Login request has a result, on a transport that is
\* open: not after a close.
C35_ReadyOnlyAfterLogin ==
    [][(closed /\ ~closed')
          => /\ transport = "open"
             /\ connection.pc = "login"
             /\ AwaitedFuture.state = "result"]_vars

\* connect, or the ping that called it, raises in this step what login
\* raised
LoginRaises ==
    /\ connection.pc \in {"challenge", "login"}
    /\ connection'.pc = "idle"
    /\ raised' = "AMICommandFailure"

\* C36: a connect whose login fails leaves no transport open.
C36_FailedConnectClosesTransport ==
    [][LoginRaises => (closed' /\ transport' # "open")]_vars

\* C39: close never raises and leaves closed True, on a connection that
\* was never connected and on one that is already closed too.
C39_CloseNeverRaises ==
    [][Close => (raised' = "none" /\ closed')]_vars

\* the connect that ping re-ran waits for the answer to a login request,
\* and the server's error answer to it has been received
ReconnectRefused ==
    /\ connection.in_ping
    /\ connection.pc \in {"challenge", "login"}
    /\ \E i \in DOMAIN message_queue :
           message_queue[i] = ResponseText(connection.awaited.v, Error)

\* C33: when the login of the connect that ping re-ran is answered with an
\* error, ping ends, the error raised to its caller, and the connection is
\* left closed.
C33_ReconnectFailureRaised ==
    ReconnectRefused ~> (~connection.in_ping /\ closed)

\* the future ping waits for gets its result in this step
PingAnswered ==
    /\ connection.pc = "ping"
    /\ AwaitedFuture.state = "pending"
    /\ action_futures'[connection.awaited.v].state = "result"

\* C37: the step that routes the success response to the request of ping
\* changes that future alone, and the step in which ping resumes with it
\* returns; neither closes nor reconnects, nor changes the closed flag, the
\* transport, the decode task, the subscriptions or another future.
C37_PingSuccessChangesNothing ==
    [][/\ PingAnswered
            => /\ \A id \in DOMAIN action_futures \ {connection.awaited.v} :
                      action_futures'[id] = action_futures[id]
               /\ DOMAIN action_futures' = DOMAIN action_futures
               /\ UNCHANGED << closed, transport, task, event_handlers >>
       /\ Resumes({"ping"}, "result")
            => /\ connection'.pc = "idle"
               /\ raised' = "none"
               /\ UNCHANGED << closed, transport, task, event_handlers,
                               action_futures >>]_vars

\* a ping on a ready connection was answered and has returned
C37_Witness ==
    /\ ~closed
    /\ connection.pc = "idle"
    /\ raised = "none"
    /\ transport = "open"
    /\ task = "waiting"
    /\ Contains(wire, WrittenLine(Action, Ping))
    /\ \A id \in DOMAIN action_futures : action_futures[id].state = "result"

\* C38: a sendMessage that raises has written nothing and registered no
\* future.
C38_SendAllOrNothing ==
    [][\A data \in SendFields :
          (SendMessage(data) /\ raised' # "none")
              => /\ wire' = wire
                 /\ action_futures' = action_futures]_vars

\* C32: the step that routes an error response to a pending request
\* changes no other future and leaves the closed flag, the transport, the
\* decode task and the subscriptions as they were: the task is still
\* waiting for the next message.
C32_ErrorResponseFrame ==
    [][\A i \in DOMAIN NewMessages :
          LET m == NewMessages[i]
          IN  (/\ Len(NewMessages) = 1
               /\ ActionID \in DOMAIN m
               /\ m[ActionID].k = "str"
               /\ Outstanding(m[ActionID].v)
               /\ Get(m, Response) = Str(Error))
              => /\ DOMAIN action_futures' = DOMAIN action_futures
                 /\ \A id \in DOMAIN action_futures \ {m[ActionID].v} :
                        action_futures'[id] = action_futures[id]
                 /\ action_futures'[m[ActionID].v].state = "exception"
                 /\ task' = "waiting"
                 /\ UNCHANGED << closed, transport, event_handlers, count,
                                 wire, hostname >>]_vars

\* a request has failed, and the next request was sent on the same
\* connection and is outstanding
C32_Witness ==
    /\ transport = "open"
    /\ task = "waiting"
    /\ count = 2
    /\ message_queue = <<>>
    /\ \E id1, id2 \in DOMAIN action_futures :
           /\ id1 = GenerateActionId(hostname, 0).id
           /\ id2 = GenerateActionId(hostname, 1).id
           /\ action_futures[id1].state = "exception"
           /\ action_futures[id2].state = "pending"
           /\ Contains(wire, RequestBytes(id2, << <<Action, Ping>> >>))

\* the calls scheduled in this step
NewCalls == SubSeq(ready', Len(ready) + 1, Len(ready'))

\* a call whose message bears the identifier id
CallFor(call, id) == Get(call.arg, ActionID) = Str(id)

\* C34: of two messages of which the first completes first on the wire,
\* nothing of the first is routed after something of the second: once the
\* future of the second is done or a callback is scheduled with the
\* second, the future of the first does not change and no callback is
\* scheduled with the first, and the calls scheduled with the first stand
\* before those scheduled with the second.
C34_RoutedInWireOrder ==
    [][/\ (\/ Done(action_futures[OrderId(2)])
           \/ \E i \in DOMAIN ready : CallFor(ready[i], OrderId(2)))
            => /\ action_futures'[OrderId(1)] = action_futures[OrderId(1)]
               /\ \A i \in DOMAIN NewCalls :
                      ~CallFor(NewCalls[i], OrderId(1))
       /\ \A i, j \in DOMAIN ready' :
              (CallFor(ready'[i], OrderId(1)) /\ CallFor(ready'[j], OrderId(2)))
                  => i < j
       /\ \A i, j \in DOMAIN assembled' :
              (/\ Get(assembled'[i], ActionID) = Str(OrderId(1))
               /\ Get(assembled'[j], ActionID) = Str(OrderId(2)))
                  => i < j]_vars

\* the stream arrived in two pieces, a request was sent meanwhile, and
\* both messages are routed
C34_Witness ==
    /\ pos = Len(stream)
    /\ ops = 3
    /\ count = 3
    /\ message_queue = <<>>
    /\ action_futures[OrderId(1)].state = "result"
    /\ action_futures[OrderId(2)].state = "result"
    /\ Len(ready) = 2
    /\ CallFor(ready[1], OrderId(1))
    /\ CallFor(ready[2], OrderId(2))

====
